---- MODULE Spec2Model ----
(***************************************************************************)
(* Model of dashboard.py: a Streamlit script that is re-executed from top  *)
(* to bottom on every user interaction.  Two loaders are memoized with     *)
(* st.cache_data; everything else is recomputed on each run.               *)
(*                                                                         *)
(* Representation                                                          *)
(*   - a Python str is a sequence of one-character strings;                *)
(*   - a spreadsheet / JSON cell is a record [t, s, n]: t = "str" (text s),*)
(*     t = "num" (number n) or t = "nan" (missing / null);                 *)
(*   - a float64 vote count is kept in fixed point, in units of 1/Unit, so *)
(*     that fractional cells and the truncation of astype(int) are exact;  *)
(*   - a float64 ratio is the pair [num, den] (den = 0: inf or nan);       *)
(*     rounding errors of binary floating point are not modelled.          *)
(***************************************************************************)
EXTENDS Integers, Sequences, FiniteSets, TLC

VARIABLES
    arquivo,      \* base_de_dados_eleitoral.xlsx on disk: [existe, colunas, linhas]
    cache_df,     \* st.cache_data entry of carregar_dados_projecao
    cache_geo,    \* st.cache_data entry of carregar_geojson
    resposta,     \* what requests.get(url) produced when it was last called
    pc,           \* position of the current script run
    df,           \* the run's module-level df
    geojson,      \* the run's module-level geojson
    geoChamado,   \* carregar_geojson() was called in the current run
    mensagens,    \* st.error messages / traceback shown in the current run
    telas,        \* the sections rendered in the current run
    execucoes,    \* script runs started so far
    leituras,     \* calls of pd.read_excel so far
    requisicoes   \* calls of requests.get so far

vars == <<arquivo, cache_df, cache_geo, resposta, pc, df, geojson, geoChamado,
          mensagens, telas, execucoes, leituras, requisicoes>>

----------------------------------------------------------------------------
(* Bounds of the model *)

MaxExecucoes == 2
LinhasLongas == 10

(* Fixed-point resolution of float64 vote counts: one decimal place *)
Unit == 10

(* Program constants *)
TopN == 5
TopGrafico == 20
Cem == 100

----------------------------------------------------------------------------
(* Cells *)

Str(s) == [t |-> "str", s |-> s, n |-> 0]
Num(n) == [t |-> "num", s |-> <<>>, n |-> n]
NaN == [t |-> "nan", s |-> <<>>, n |-> 0]

----------------------------------------------------------------------------
(* normalize_text *)

AsciiUpper == {"A", "C", "I", "O", "R", "S"}
AsciiLower == {"a", "c", "i", "o", "r", "s"}
AsciiOther == {" "}

\* unicodedata.normalize('NFKD', c) of one character: an accented letter
\* decomposes into its base letter and a combining mark; the other
\* characters of the alphabet have no decomposition.
NFKDChar(c) ==
    CASE c = "ã" -> <<"a", "U+0303">>
      [] c = "Ã" -> <<"A", "U+0303">>
      [] c = "ç" -> <<"c", "U+0327">>
      [] c = "ó" -> <<"o", "U+0301">>
      [] OTHER -> <<c>>

RECURSIVE NFKD(_)
NFKD(s) ==
    IF s = <<>> THEN <<>> ELSE NFKDChar(Head(s)) \o NFKD(Tail(s))

\* .encode('ASCII', 'ignore').decode('utf-8'): non-ASCII code points are dropped
IsAscii(c) == c \in AsciiUpper \cup AsciiLower \cup AsciiOther

EncodeAsciiIgnore(s) == SelectSeq(s, IsAscii)

\* str.upper() of an ASCII string
UpperChar(c) ==
    CASE c = "a" -> "A"
      [] c = "c" -> "C"
      [] c = "i" -> "I"
      [] c = "o" -> "O"
      [] c = "r" -> "R"
      [] c = "s" -> "S"
      [] OTHER -> c

Upper(s) == [i \in 1..Len(s) |-> UpperChar(s[i])]

normalize_text(text) ==
    IF text.t # "str" THEN <<>>
    ELSE Upper(EncodeAsciiIgnore(NFKD(text.s)))

----------------------------------------------------------------------------
(* pd.to_numeric(..., errors='coerce').fillna(0) *)

Digits == {"0", "1", "2", "3", "4", "5", "6", "7", "8", "9"}

DigitVal(c) ==
    CASE c = "0" -> 0 [] c = "1" -> 1 [] c = "2" -> 2 [] c = "3" -> 3
      [] c = "4" -> 4 [] c = "5" -> 5 [] c = "6" -> 6 [] c = "7" -> 7
      [] c = "8" -> 8 [] c = "9" -> 9

IsDigits(s) == Len(s) > 0 /\ \A i \in 1..Len(s) : s[i] \in Digits

RECURSIVE IntVal(_)
IntVal(s) ==
    IF s = <<>> THEN 0
    ELSE IntVal(SubSeq(s, 1, Len(s) - 1)) * 10 + DigitVal(s[Len(s)])

\* The magnitude of an unsigned decimal literal, in 1/Unit, or -1 when the
\* text is no number.  Literals carry at most one decimal place.
ParseUnsigned(s) ==
    LET n == Len(s) IN
    IF IsDigits(s) THEN IntVal(s) * Unit
    ELSE IF n >= 3 /\ s[n - 1] = "." /\ IsDigits(SubSeq(s, 1, n - 2)) /\ s[n] \in Digits
         THEN IntVal(SubSeq(s, 1, n - 2)) * Unit + DigitVal(s[n])
         ELSE -1

\* One element through pd.to_numeric(errors='coerce'): a number, or NaN
ToNumeric(cell) ==
    CASE cell.t = "num" -> cell
      [] cell.t = "nan" -> NaN
      [] cell.t = "str" ->
            LET neg == Len(cell.s) > 0 /\ cell.s[1] = "-"
                mag == ParseUnsigned(IF neg THEN Tail(cell.s) ELSE cell.s)
            IN  IF mag < 0 THEN NaN
                ELSE Num(IF neg THEN -mag ELSE mag)

\* .fillna(0)
FillNa0(cell) == IF cell.t = "nan" THEN 0 ELSE cell.n

Coerce(cell) == FillNa0(ToNumeric(cell))

\* .fillna('').astype(str) of a text or missing cell
CoerceCabo(cell) == IF cell.t = "str" THEN cell.s ELSE <<>>

----------------------------------------------------------------------------
(* Exact ratios standing for float64 values *)

Ratio(a, b) == [num |-> a, den |-> b]

\* a/b > c/d and a/b < c/d, for b # 0 and d > 0
RatioGT(x, y) ==
    IF x.den > 0 THEN x.num * y.den > y.num * x.den
    ELSE x.num * y.den < y.num * x.den

RatioLT(x, y) ==
    IF x.den > 0 THEN x.num * y.den < y.num * x.den
    ELSE x.num * y.den > y.num * x.den

\* Series.astype(int) of a finite float: truncation toward zero
AsTypeInt(h) == IF h >= 0 THEN h \div Unit ELSE -((-h) \div Unit)

\* Faulty variant: the zero denominator is left in place
Replace01Omitido(h) == h

\* Series.replace(0, 1)
Replace01(h) == IF h = 0 THEN Unit ELSE h

RECURSIVE SumCol(_, _)
SumCol(d, col) ==
    IF d = <<>> THEN 0 ELSE Head(d)[col] + SumCol(Tail(d), col)

----------------------------------------------------------------------------
(* carregar_dados_projecao *)

\* The DataFrame the function returns for a spreadsheet that has every column
DadosProjecao(linhas) ==
    [i \in 1..Len(linhas) |->
        [Municipio      |-> linhas[i].Municipio,
         Votos_2022     |-> Coerce(linhas[i].Votos_2022),
         Votos_2026     |-> Coerce(linhas[i].Votos_2026),
         Cabo_Eleitoral |-> CoerceCabo(linhas[i].Cabo_Eleitoral),
         Municipio_ID   |-> normalize_text(linhas[i].Municipio)]]

----------------------------------------------------------------------------
(* carregar_geojson *)

None == [nulo |-> TRUE]

\* requests.get(url).json() and the loop over geojson_data['features'] raise
\* nothing: the request returned, the body is JSON, it is an object with a
\* 'features' list and every feature has properties.name.  The status code of
\* the response is not looked at.
GeojsonCarrega(r) ==
    /\ ~r.excecao
    /\ r.corpo.json
    /\ r.corpo.temFeatures
    /\ \A k \in 1..Len(r.corpo.features) : r.corpo.features[k].temNome

\* Faulty variant: the key of a feature is not upper-cased
AnotarFeatureSemUpper(f) ==
    [name |-> f.name,
     id |-> IF f.name.t # "str" THEN <<>> ELSE EncodeAsciiIgnore(NFKD(f.name.s))]

AnotarFeature(f) == [name |-> f.name, id |-> normalize_text(f.name)]

\* The value carregar_geojson returns (and st.cache_data stores)
GeojsonDe(r) ==
    IF GeojsonCarrega(r)
    THEN [nulo |-> FALSE,
          features |-> [k \in 1..Len(r.corpo.features) |->
                            AnotarFeature(r.corpo.features[k])]]
    ELSE None

----------------------------------------------------------------------------
(* Derived columns, lines 57-58 *)

CrescimentoVotos(r) == AsTypeInt(r.Votos_2026 - r.Votos_2022)

CrescimentoPercentual(g, v22) == Ratio(g * Unit * Cem, Replace01(v22))

ComCrescimento(r) ==
    [Municipio              |-> r.Municipio,
     Votos_2022             |-> r.Votos_2022,
     Votos_2026             |-> r.Votos_2026,
     Cabo_Eleitoral         |-> r.Cabo_Eleitoral,
     Municipio_ID           |-> r.Municipio_ID,
     Crescimento_Votos      |-> CrescimentoVotos(r),
     Crescimento_Percentual |-> CrescimentoPercentual(CrescimentoVotos(r), r.Votos_2022)]

----------------------------------------------------------------------------
(* Views *)

Ausente == [on |-> FALSE]

TelasVazias ==
    [resumo |-> Ausente, mapa |-> Ausente, destaques |-> Ausente,
     grafico |-> Ausente, tabela |-> Ausente]

\* Lines 67-72: the three metric cards
ResumoGeral(d) ==
    LET total_votos_2022 == SumCol(d, "Votos_2022")
        total_votos_2026 == SumCol(d, "Votos_2026")
    IN  [on |-> TRUE,
         total_votos_2022 |-> total_votos_2022,
         total_votos_2026 |-> total_votos_2026,
         crescimento_consolidado |-> total_votos_2026 - total_votos_2022,
         crescimento_percentual_consolidado |->
             Ratio((total_votos_2026 - total_votos_2022) * Cem, total_votos_2022)]

map_metric_options ==
    {"Crescimento_Percentual", "Votos_2026", "Votos_2022", "Crescimento_Votos"}

\* df[df['Cabo_Eleitoral'].notna() & (df['Cabo_Eleitoral'] != '')] if filtro else df
FiltrarCabos(d, filtro) ==
    IF filtro THEN SelectSeq(d, LAMBDA r : r.Cabo_Eleitoral # <<>>) ELSE d

\* px.choropleth_mapbox: a region is drawn for every location of the frame
\* that is the properties.id of a feature, coloured by the row's value of
\* the colour column.  Rows sharing a location each contribute their value.
ChoroplethMapbox(d, gj, col) ==
    {[id |-> d[i].Municipio_ID, cor |-> d[i][col]] :
        i \in {j \in 1..Len(d) :
                 \E k \in 1..Len(gj.features) : gj.features[k].id = d[j].Municipio_ID}}

\* DataFrame.nlargest / nsmallest(n, col), keep='first': row positions in
\* rank order, equal values in their order of appearance.
RECURSIVE SelectN(_, _, _, _, _)
SelectN(d, col, n, rest, largest) ==
    IF n = 0 \/ rest = {} THEN <<>>
    ELSE LET Before(i, j) ==
                 \/ IF largest THEN d[i][col] > d[j][col] ELSE d[i][col] < d[j][col]
                 \/ d[i][col] = d[j][col] /\ i <= j
             best == CHOOSE i \in rest : \A j \in rest : Before(i, j)
         IN  <<best>> \o SelectN(d, col, n - 1, rest \ {best}, largest)

NLargest(d, n, col) == SelectN(d, col, n, 1..Len(d), TRUE)

\* Faulty variant: the losses table ranks like the gains table
NSmallestComoNLargest(d, n, col) == SelectN(d, col, n, 1..Len(d), TRUE)

NSmallest(d, n, col) == SelectN(d, col, n, 1..Len(d), FALSE)

\* Lines 116 and 119: the shown columns of the selected rows (linha is the
\* row's position in df, which the tables hide)
Destaque(d, idx) ==
    [k \in 1..Len(idx) |->
        [linha |-> idx[k],
         Municipio |-> d[idx[k]].Municipio,
         Crescimento_Votos |-> d[idx[k]].Crescimento_Votos]]

Destaques(d) ==
    [on |-> TRUE,
     maiores |-> Destaque(d, NLargest(d, TopN, "Crescimento_Votos")),
     quedas  |-> Destaque(d, NSmallest(d, TopN, "Crescimento_Votos"))]

\* df.melt(id_vars=['Municipio'], value_vars=['Votos_2022', 'Votos_2026'])
Melt(d) ==
    [i \in 1..Len(d) |->
        [Municipio |-> d[i].Municipio, Ano |-> "Votos_2022", Total |-> d[i].Votos_2022]]
    \o
    [i \in 1..Len(d) |->
        [Municipio |-> d[i].Municipio, Ano |-> "Votos_2026", Total |-> d[i].Votos_2026]]

Grafico(d, tipo_grafico) ==
    LET principais == NLargest(d, TopGrafico, "Votos_2022")
        nomes == {d[principais[k]].Municipio : k \in 1..Len(principais)}
    IN  [on |-> TRUE,
         tipo |-> tipo_grafico,
         dados |-> IF tipo_grafico = "Barras"
                   THEN SelectSeq(Melt(d), LAMBDA m : m.Municipio \in nomes)
                   ELSE Melt(d)]

\* estilo_crescimento: a dead band of 0.01 around zero
Limiar == Ratio(1, 100)

estilo_crescimento(v) ==
    IF RatioGT(v, Limiar) THEN "green"
    ELSE IF RatioLT(v, Ratio(-1, 100)) THEN "red"
    ELSE ""

\* Lines 135-144: Municipio_ID dropped, the growth column styled
Tabela(d, filtro) ==
    LET t == FiltrarCabos(d, filtro)
    IN  [on |-> TRUE,
         linhas |-> [i \in 1..Len(t) |->
             [Municipio              |-> t[i].Municipio,
              Votos_2022             |-> t[i].Votos_2022,
              Votos_2026             |-> t[i].Votos_2026,
              Cabo_Eleitoral         |-> t[i].Cabo_Eleitoral,
              Crescimento_Votos      |-> t[i].Crescimento_Votos,
              Crescimento_Percentual |-> t[i].Crescimento_Percentual,
              estilo |-> estilo_crescimento(t[i].Crescimento_Percentual)]]]

----------------------------------------------------------------------------
(* Inputs: the spreadsheets the process may find on disk *)

Linha(m, v22, v26, cabo) ==
    [Municipio |-> m, Votos_2022 |-> v22, Votos_2026 |-> v26, Cabo_Eleitoral |-> cabo]

SemCabo(l) ==
    [Municipio |-> l.Municipio, Votos_2022 |-> l.Votos_2022, Votos_2026 |-> l.Votos_2026]

Sao   == Str(<<"S", "ã", "o">>)
SAO   == Str(<<"S", "A", "O">>)
Rio   == Str(<<"R", "i", "o">>)
RioSp == Str(<<"r", "i", "o", " ">>)
Agente == Str(<<"A", "g">>)
Vazio == Str(<<>>)

\* Raw contents of a vote-count cell: numbers (whole, fractional, negative),
\* numeric text, other text, empty text, missing
Celulas ==
    {Num(0), Num(2 * Unit), Num(Unit + 5), Num(-Unit),
     Str(<<"3">>), Str(<<"x">>), Vazio, NaN}

\* One municipality, every pair of raw vote cells
TabelasCelulas == {<<Linha(Rio, a, b, Agente)>> : a \in Celulas, b \in Celulas}

\* Two municipalities with the votes of the scenario (1000 -> 1200, 500 -> 400),
\* names and field agents varied
TabelasNomes ==
    {<<Linha(m, Num(1000 * Unit), Num(1200 * Unit), c), l2>> :
        m \in {Sao, RioSp, NaN}, c \in {Agente, Vazio, NaN},
        l2 \in {Linha(SAO, Num(500 * Unit), Num(400 * Unit), Agente),
                Linha(Rio, Num(500 * Unit), Num(400 * Unit), Vazio)}}

\* Long tables: n rows, votes 3 -> f(i) with f(i) = min(i, k) or i mod k, so
\* that growth values repeat more or less often
Forma(forma, i, k) == IF forma = "min" THEN (IF i < k THEN i ELSE k) ELSE i % k

TabelaLonga(n, k, forma) ==
    [i \in 1..n |-> Linha(Rio, Num(3 * Unit), Num(Forma(forma, i, k) * Unit), Agente)]

TabelasLongas ==
    {TabelaLonga(n, k, forma) :
        n \in (LinhasLongas - 1)..LinhasLongas, k \in 1..(LinhasLongas + 1),
        forma \in {"min", "mod"}}

Tabelas == TabelasCelulas \cup TabelasNomes \cup TabelasLongas \cup {<<>>}

Colunas == {"Municipio", "Votos_2022", "Votos_2026", "Cabo_Eleitoral"}

Arquivos ==
    {[existe |-> FALSE, colunas |-> {}, linhas |-> <<>>]}
    \cup {[existe |-> TRUE, colunas |-> Colunas, linhas |-> t] : t \in Tabelas}
    \cup {[existe |-> TRUE, colunas |-> Colunas \ {"Cabo_Eleitoral"},
           linhas |-> [i \in 1..Len(t) |-> SemCabo(t[i])]] : t \in TabelasNomes}

(* Inputs: what the HTTP GET may produce *)

Feature(nome) == [temNome |-> TRUE, name |-> nome]
FeatureSemNome == [temNome |-> FALSE, name |-> NaN]

CorpoTexto == [json |-> FALSE, temFeatures |-> FALSE, features |-> <<>>]
CorpoSemFeatures == [json |-> TRUE, temFeatures |-> FALSE, features |-> <<>>]
CorpoFeatures(fs) == [json |-> TRUE, temFeatures |-> TRUE, features |-> fs]

Colecoes ==
    {CorpoFeatures(<<Feature(Sao), Feature(Rio)>>),
     CorpoFeatures(<<Feature(SAO), Feature(NaN)>>)}

Corpos ==
    Colecoes \cup {CorpoTexto, CorpoSemFeatures,
                   CorpoFeatures(<<Feature(Rio), FeatureSemNome>>)}

Respostas ==
    {[excecao |-> TRUE, status |-> 0, corpo |-> CorpoTexto]}
    \cup {[excecao |-> FALSE, status |-> 200, corpo |-> c] : c \in Corpos}
    \cup {[excecao |-> FALSE, status |-> 404, corpo |-> c] :
             c \in {CorpoTexto, CorpoFeatures(<<Feature(Sao), Feature(Rio)>>)}}

SemResposta == [excecao |-> FALSE, status |-> 0, corpo |-> CorpoTexto]

----------------------------------------------------------------------------
(* State machine *)

Miss == [hit |-> FALSE]

Init ==
    /\ arquivo \in Arquivos
    /\ cache_df = Miss
    /\ cache_geo = Miss
    /\ resposta = SemResposta
    /\ pc = "dados"
    /\ df = <<>>
    /\ geojson = None
    /\ geoChamado = FALSE
    /\ mensagens = {}
    /\ telas = TelasVazias
    /\ execucoes = 1
    /\ leituras = 0
    /\ requisicoes = 0

\* Line 34, st.stop(): the run ends there
\* (faulty variant: the function returns instead, and the script goes on)
st_stop_omitido == "geojson"
st_stop == "stopped"

\* Line 55, df = carregar_dados_projecao(): a hit of st.cache_data hands out
\* a copy of the stored frame; a miss runs the function, and only a normal
\* return is stored.
carregar_dados_projecao ==
    /\ pc = "dados"
    /\ IF cache_df.hit
       THEN /\ df' = cache_df.valor
            /\ pc' = "geojson"
            /\ UNCHANGED <<cache_df, mensagens, leituras>>
       ELSE IF ~arquivo.existe
       THEN \* st.error(...); st.stop()
            /\ mensagens' = mensagens \cup {"arquivo_nao_encontrado"}
            /\ pc' = st_stop
            /\ UNCHANGED <<cache_df, df, leituras>>
       ELSE IF "Cabo_Eleitoral" \notin arquivo.colunas
       THEN \* pd.read_excel, then df['Cabo_Eleitoral'] raises KeyError
            /\ leituras' = leituras + 1
            /\ mensagens' = mensagens \cup {"KeyError"}
            /\ pc' = "crashed"
            /\ UNCHANGED <<cache_df, df>>
       ELSE /\ leituras' = leituras + 1
            /\ cache_df' = [hit |-> TRUE, valor |-> DadosProjecao(arquivo.linhas)]
            /\ df' = DadosProjecao(arquivo.linhas)
            /\ pc' = "geojson"
            /\ UNCHANGED mensagens
    /\ UNCHANGED <<arquivo, cache_geo, resposta, geojson, geoChamado, telas,
                   execucoes, requisicoes>>

\* Line 56, geojson = carregar_geojson(): the st.error of the except branch
\* is stored with the returned None and replayed on every hit.
GeoMensagens(valor) == IF valor = None THEN {"mapa_nao_carregado"} ELSE {}

\* Lines 50-52: the except branch returns; the script goes on at line 57
\* (faulty variant: the except branch ends the run)
AposGeojsonAbortando(valor) == IF valor = None THEN "stopped" ELSE "calculos"
AposGeojson(valor) == "calculos"

carregar_geojson ==
    /\ pc = "geojson"
    /\ geoChamado' = TRUE
    /\ IF cache_geo.hit
       THEN /\ geojson' = cache_geo.valor
            /\ mensagens' = mensagens \cup GeoMensagens(cache_geo.valor)
            /\ pc' = AposGeojson(cache_geo.valor)
            /\ UNCHANGED <<cache_geo, resposta, requisicoes>>
       ELSE \E r \in Respostas :
            /\ requisicoes' = requisicoes + 1
            /\ resposta' = r
            /\ cache_geo' = [hit |-> TRUE, valor |-> GeojsonDe(r)]
            /\ geojson' = GeojsonDe(r)
            /\ mensagens' = mensagens \cup GeoMensagens(GeojsonDe(r))
            /\ pc' = AposGeojson(GeojsonDe(r))
    /\ UNCHANGED <<arquivo, cache_df, df, telas, execucoes, leituras>>

\* st.cache_data hands every caller its own copy of the stored value, so
\* assigning columns to the run's df leaves the entry as it was.
\* (faulty variant: the entry is the very object the run assigns to)
EntradaCompartilhada(entrada, d) == [hit |-> TRUE, valor |-> d]
EntradaAposAtribuicao(entrada, d) == entrada

\* Lines 57-58: the two derived columns are added to the run's df
Calculos ==
    /\ pc = "calculos"
    /\ df' = [i \in 1..Len(df) |-> ComCrescimento(df[i])]
    /\ cache_df' = EntradaAposAtribuicao(cache_df, df')
    /\ pc' = "resumo"
    /\ UNCHANGED <<arquivo, cache_geo, resposta, geojson, geoChamado,
                   mensagens, telas, execucoes, leituras, requisicoes>>

\* Lines 66-72
Resumo ==
    /\ pc = "resumo"
    /\ telas' = [telas EXCEPT !.resumo = ResumoGeral(df)]
    /\ pc' = "mapa"
    /\ UNCHANGED <<arquivo, cache_df, cache_geo, resposta, df, geojson, geoChamado,
                   mensagens, execucoes, leituras, requisicoes>>

\* Lines 85-108: the selectbox and the checkbox hold what the user chose
MapaDe(gj, d, col, filtro) ==
    IF gj # None
    THEN [on |-> TRUE, metrica |-> col, filtro |-> filtro,
          regioes |-> ChoroplethMapbox(FiltrarCabos(d, filtro), gj, col)]
    ELSE Ausente

Mapa ==
    /\ pc = "mapa"
    /\ \E selected_metric_col \in map_metric_options, filtro_mapa_cabos \in BOOLEAN :
           telas' = [telas EXCEPT
                        !.mapa = MapaDe(geojson, df, selected_metric_col, filtro_mapa_cabos)]
    /\ pc' = "destaques"
    /\ UNCHANGED <<arquivo, cache_df, cache_geo, resposta, df, geojson, geoChamado,
                   mensagens, execucoes, leituras, requisicoes>>

\* Lines 112-119
Destacar ==
    /\ pc = "destaques"
    /\ telas' = [telas EXCEPT !.destaques = Destaques(df)]
    /\ pc' = "grafico"
    /\ UNCHANGED <<arquivo, cache_df, cache_geo, resposta, df, geojson, geoChamado,
                   mensagens, execucoes, leituras, requisicoes>>

\* Lines 122-130
Graficar ==
    /\ pc = "grafico"
    /\ \E tipo_grafico \in {"Barras", "Linhas"} :
           telas' = [telas EXCEPT !.grafico = Grafico(df, tipo_grafico)]
    /\ pc' = "tabela"
    /\ UNCHANGED <<arquivo, cache_df, cache_geo, resposta, df, geojson, geoChamado,
                   mensagens, execucoes, leituras, requisicoes>>

\* Lines 133-144
Detalhar ==
    /\ pc = "tabela"
    /\ \E filtro_tabela_cabos \in BOOLEAN :
           telas' = [telas EXCEPT !.tabela = Tabela(df, filtro_tabela_cabos)]
    /\ pc' = "done"
    /\ UNCHANGED <<arquivo, cache_df, cache_geo, resposta, df, geojson, geoChamado,
                   mensagens, execucoes, leituras, requisicoes>>

\* A user interaction: Streamlit runs the script again from the top, in the
\* same process, with a fresh page and fresh module globals.
Rerun ==
    /\ pc \in {"done", "stopped", "crashed"}
    /\ execucoes < MaxExecucoes
    /\ execucoes' = execucoes + 1
    /\ pc' = "dados"
    /\ df' = <<>>
    /\ geojson' = None
    /\ geoChamado' = FALSE
    /\ mensagens' = {}
    /\ telas' = TelasVazias
    /\ UNCHANGED <<arquivo, cache_df, cache_geo, resposta, leituras, requisicoes>>

Next ==
    \/ carregar_dados_projecao
    \/ carregar_geojson
    \/ Calculos
    \/ Resumo
    \/ Mapa
    \/ Destacar
    \/ Graficar
    \/ Detalhar
    \/ Rerun

Spec == Init /\ [][Next]_vars

----------------------------------------------------------------------------
(* Properties *)

\* The run has passed lines 57-58: every row of df carries the derived columns
Calculado == pc \in {"resumo", "mapa", "destaques", "grafico", "tabela", "done"}

\* The frame lines 55-58 build from the spreadsheet on disk
Base ==
    LET d == DadosProjecao(arquivo.linhas)
    IN  [i \in 1..Len(d) |-> ComCrescimento(d[i])]

\* The map was attempted in this run: carregar_geojson has returned
GeoRetornou == geoChamado /\ cache_geo.hit

\* C1: when the spreadsheet file is missing, a run that has executed the
\* loader has shown the error and is halted, with no section rendered and
\* carregar_geojson never called (hence no request ever sent).
C1_ArquivoAusenteInterrompe ==
    (~arquivo.existe /\ pc # "dados") =>
        /\ pc = "stopped"
        /\ "arquivo_nao_encontrado" \in mensagens
        /\ telas = TelasVazias
        /\ ~geoChamado
        /\ requisicoes = 0
        /\ ~cache_geo.hit

C1_Witness == ~arquivo.existe /\ pc = "stopped" /\ execucoes = MaxExecucoes

C3_SoMapaComStatus200 ==
    GeoRetornou =>
        /\ (resposta.excecao \/ resposta.status # 200 \/ ~GeojsonCarrega(resposta))
              => (geojson = None /\ telas.mapa = Ausente)
        /\ telas.mapa.on => (resposta.status = 200 /\ GeojsonCarrega(resposta))

\* C4 (as claimed): over any sequence of runs in one process the spreadsheet
\* is read at most once and the boundary dataset is requested at most once.
C4_NoMaximoUmaLeitura == leituras <= 1 /\ requisicoes <= 1

\* Row positions shown in the two top-5 tables
LinhasDe(tabela) == {tabela[k].linha : k \in 1..Len(tabela)}

\* The k-th smallest and k-th largest growth_absolute of a frame of at least
\* k rows, counted with repetitions
KesimoMenor(d, k) ==
    CHOOSE v \in {d[i].Crescimento_Votos : i \in 1..Len(d)} :
        /\ Cardinality({i \in 1..Len(d) : d[i].Crescimento_Votos < v}) < k
        /\ Cardinality({i \in 1..Len(d) : d[i].Crescimento_Votos <= v}) >= k

KesimoMaior(d, k) ==
    CHOOSE v \in {d[i].Crescimento_Votos : i \in 1..Len(d)} :
        /\ Cardinality({i \in 1..Len(d) : d[i].Crescimento_Votos > v}) < k
        /\ Cardinality({i \in 1..Len(d) : d[i].Crescimento_Votos >= v}) >= k

C6_PercentualIgualAbsoluto ==
    Calculado =>
        \A i \in 1..Len(df) :
            df[i].Votos_2022 = 0 =>
                df[i].Crescimento_Percentual.num =
                    df[i].Crescimento_Votos * df[i].Crescimento_Percentual.den

\* C6 (amended): a record with votes_cycle1 = 0 has growth_percent equal to
\* growth_absolute divided by 1 and multiplied by 100.
C6_PercentualCemVezesAbsoluto ==
    Calculado =>
        \A i \in 1..Len(df) :
            df[i].Votos_2022 = 0 =>
                /\ df[i].Crescimento_Percentual.den # 0
                /\ df[i].Crescimento_Percentual.num =
                      df[i].Crescimento_Votos * Cem * df[i].Crescimento_Percentual.den

C6_Witness ==
    /\ Calculado
    /\ \E i \in 1..Len(df) : df[i].Votos_2022 = 0 /\ df[i].Crescimento_Votos # 0

\* C7 (as claimed): whatever the raw cells were, both vote counts of a record
\* are non-negative integers and growth_absolute is their exact difference.
C7_CrescimentoExato ==
    Calculado =>
        \A i \in 1..Len(df) :
            /\ df[i].Votos_2022 >= 0 /\ df[i].Votos_2022 % Unit = 0
            /\ df[i].Votos_2026 >= 0 /\ df[i].Votos_2026 % Unit = 0
            /\ df[i].Crescimento_Votos * Unit = df[i].Votos_2026 - df[i].Votos_2022

\* C8 (as claimed): a spreadsheet without the field-agent column is loaded
\* without error and the run renders its views.
C8_ColunaCaboOpcional ==
    (arquivo.existe /\ "Cabo_Eleitoral" \notin arquivo.colunas) =>
        /\ pc # "crashed"
        /\ "KeyError" \notin mensagens

\* Raw spreadsheet rows the map may draw: all of them, or with the checkbox
\* on those whose field-agent cell holds non-empty text
LinhasDoMapa(filtro) ==
    {i \in 1..Len(arquivo.linhas) :
        filtro => (arquivo.linhas[i].Cabo_Eleitoral.t = "str"
                   /\ arquivo.linhas[i].Cabo_Eleitoral.s # <<>>)}

\* C9: the coloured regions are exactly the join keys that normalize_text
\* yields both for the name of a (selected) record and for the name of a
\* boundary feature, and each colour is the selected metric of a selected
\* record with that key.
C9_RegioesColoridas ==
    telas.mapa.on =>
        LET m == telas.mapa
            sel == LinhasDoMapa(m.filtro)
            chavesRegistros == {normalize_text(arquivo.linhas[i].Municipio) : i \in sel}
            chavesFronteiras ==
                {normalize_text(resposta.corpo.features[k].name) :
                    k \in 1..Len(resposta.corpo.features)}
        IN  /\ {x.id : x \in m.regioes} = chavesRegistros \cap chavesFronteiras
            /\ \A x \in m.regioes :
                  \E i \in sel :
                     /\ normalize_text(arquivo.linhas[i].Municipio) = x.id
                     /\ x.cor = df[i][m.metrica]
            /\ \A i \in sel :
                  normalize_text(arquivo.linhas[i].Municipio) \in chavesFronteiras =>
                     [id |-> normalize_text(arquivo.linhas[i].Municipio),
                      cor |-> df[i][m.metrica]] \in m.regioes

C9_Witness ==
    /\ telas.mapa.on
    /\ telas.mapa.filtro
    /\ telas.mapa.regioes # {}
    /\ \E i \in 1..Len(df) : df[i].Cabo_Eleitoral = <<>>
    /\ \E i \in 1..Len(arquivo.linhas) :
          arquivo.linhas[i].Municipio.t = "str"
          /\ arquivo.linhas[i].Municipio.s # normalize_text(arquivo.linhas[i].Municipio)
          /\ \E x \in telas.mapa.regioes :
                x.id = normalize_text(arquivo.linhas[i].Municipio)

\* C10: once populated, the two memoized tables never change, and every
\* pass starts from them: the frame handed to lines 57-58 is the stored
\* frame, without derived columns, and geojson is the stored collection.
C10_CacheImutavel ==
    [][/\ cache_df.hit => cache_df' = cache_df
       /\ cache_geo.hit => cache_geo' = cache_geo
       /\ pc' = "calculos" =>
             /\ df' = cache_df'.valor
             /\ df' = DadosProjecao(arquivo.linhas)
             /\ geojson' = cache_geo'.valor]_vars

C10_Witness ==
    /\ execucoes = MaxExecucoes
    /\ pc = "done"
    /\ cache_df.hit
    /\ Len(cache_df.valor) > 1
    /\ leituras = 1
    /\ telas.tabela.on

====
